---- MODULE Spec2Model ----
(***************************************************************************)
(* rag-with-mcp-servers: the Slack agent's event intake                    *)
(* (src/slack_agent/bot.py) and the MCP RAG server's /ask pipeline         *)
(* (src/mcp_rag_server/main.py).                                           *)
(*                                                                         *)
(* Spec     the Socket Mode listener events_api_handler: every delivery    *)
(*          runs on its own worker, the transport may redeliver an event.  *)
(* SpecAsk  one /ask request through ask and the three-stage rag_sequence. *)
(***************************************************************************)
EXTENDS Integers, Sequences, FiniteSets, TLC

(***************************************************************************)
(* Bounds of the model.                                                    *)
(***************************************************************************)
\* Requests the transport delivers in one run; envelope ids are 1..MaxDeliveries.
MaxDeliveries == 2

(***************************************************************************)
(* Python values.  A dict is a function from its keys; None is one value;  *)
(* a JSON null standing where a dict is expected is JsonNull.              *)
(***************************************************************************)
None == "<None>"

EmptyDict == << >>

JsonNull == [json_null |-> TRUE]

IsDict(v) == "json_null" \notin DOMAIN v

\* dict.get(k, default)
Get(m, k, default) == IF k \in DOMAIN m THEN m[k] ELSE default

\* Python truthiness of None and of a string.
Truthy(v) == v # None /\ v # ""

Last(s) == s[Len(s)]

\* Mutant of Reverse: the list is left in the order it came in.
Reverse_asReceived(s) == s

RECURSIVE Reverse(_)
\* list.reverse()
Reverse(s) == IF s = << >> THEN << >> ELSE Append(Reverse(Tail(s)), Head(s))

RECURSIVE SelectRole(_, _)
\* [msg for msg in messages if msg["role"] == role]
SelectRole(msgs, role) ==
  IF msgs = << >> THEN << >>
  ELSE IF Head(msgs).role = role THEN <<Head(msgs)>> \o SelectRole(Tail(msgs), role)
       ELSE SelectRole(Tail(msgs), role)

(***************************************************************************)
(* src/slack_agent/config.py                                               *)
(***************************************************************************)
MODEL_NAME == "mistral"

MAX_TOKENS == 512

HISTORY_LIMIT == 6

(***************************************************************************)
(* The events the chat transport can deliver.  An event id names one Slack *)
(* event; a redelivery carries the same payload under a new envelope id.   *)
(***************************************************************************)
EventIds == {"Ev1", "Ev2"}

ChannelOf(e) == IF e = "Ev1" THEN "C1" ELSE "C2"

TsOf(e) == IF e = "Ev1" THEN "101.0" ELSE "102.0"

TextOf(e) == IF e = "Ev1" THEN "q1" ELSE "q2"

RootTs == "100.0"

\* A message event without its optional fields user, thread_ts, bot_id, subtype.
CoreEvent(e) ==
  [type |-> "message", channel |-> ChannelOf(e), ts |-> TsOf(e), text |-> TextOf(e)]

UserEvent(e) == CoreEvent(e) @@ [user |-> "U1"]

\* The shapes of event e: a user's message at top level and in a thread, a
\* message without user, from a bot, with a subtype, a bot_message, an event
\* of another type, and an "event" field that is no JSON object.
EventsOf(e) ==
  { UserEvent(e),
    UserEvent(e) @@ [thread_ts |-> RootTs],
    CoreEvent(e),
    UserEvent(e) @@ [bot_id |-> "B1"],
    UserEvent(e) @@ [subtype |-> "message_changed"],
    CoreEvent(e) @@ [bot_id |-> "B1", subtype |-> "bot_message", thread_ts |-> RootTs],
    [type |-> "reaction_added", user |-> "U1", channel |-> ChannelOf(e), ts |-> TsOf(e)],
    JsonNull }

PayloadsOf(e) == { [event_id |-> e, event |-> ev] : ev \in EventsOf(e) }

(***************************************************************************)
(* fetch_history (bot.py 22-43).  The transport's reply is Failure (the    *)
(* call raised) or a dict whose "messages" are newest first.               *)
(***************************************************************************)
Failure == [failed |-> TRUE]

SystemMessage == [role |-> "system", content |-> "You are a helpful assistant."]

RECURSIVE MapHistory(_)
\* The loop of lines 34-38 over the reversed messages.
MapHistory(msgs) ==
  IF msgs = << >> THEN << >>
  ELSE LET msg == Head(msgs) IN
       IF Truthy(Get(msg, "subtype", None)) THEN MapHistory(Tail(msgs))
       ELSE << [role    |-> IF Truthy(Get(msg, "bot_id", None)) THEN "assistant"
                            ELSE "user",
                content |-> Get(msg, "text", "")] >> \o MapHistory(Tail(msgs))

\* Mutant of fetch_history: a failed call yields an empty history.
fetch_history_emptyOnFailure(resp) ==
  IF resp = Failure THEN << >>
  ELSE <<SystemMessage>> \o MapHistory(Reverse(Get(resp, "messages", << >>)))

fetch_history(resp) ==
  IF resp = Failure THEN <<SystemMessage>>
  ELSE <<SystemMessage>> \o MapHistory(Reverse(Get(resp, "messages", << >>)))

\* What conversations_history can answer in this model.
HistoryResponses ==
  { Failure,
    [ok |-> TRUE,
     messages |-> << [bot_id |-> "B1", text |-> "a0", ts |-> "99.0"],
                     [user |-> "U1", text |-> "q0", ts |-> "98.0"] >>] }

(***************************************************************************)
(* call_mcp_rag_server (bot.py 45-85).                                     *)
(***************************************************************************)
RagPayload(messages) ==
  [model |-> MODEL_NAME, messages |-> messages, max_tokens |-> MAX_TOKENS]

\* The answer the RAG server gives to question q.
AnswerTo(q) == "answer to " \o q

\* What requests.post to RAG_SERVER_URL produces for these messages in Spec:
\* the server's reply, its assistant message appended, or a timeout.
RagResponses(messages) ==
  { [kind |-> "http", status_code |-> 200,
     data |-> [messages |-> Append(messages,
                 [role |-> "assistant",
                  content |-> AnswerTo(Last(SelectRole(messages, "user")).content)])]],
    [kind |-> "timeout"] }

\* Mutant of call_mcp_rag_server: the first assistant message is the answer.
call_mcp_rag_server_firstAssistant(resp) ==
  CASE resp.kind = "timeout" -> "Sorry, the request timed out. Please try again."
    [] resp.kind = "connection_error" ->
         "Sorry, I couldn't connect to the server. Please try again."
    [] resp.kind = "http" /\ resp.status_code = 200 ->
         LET assistant_messages ==
               SelectRole(Get(resp.data, "messages", << >>), "assistant")
         IN  IF assistant_messages # << >> THEN Head(assistant_messages).content
             ELSE "Sorry, I couldn't process your request."
    [] OTHER -> "Sorry, I couldn't fetch an answer right now."

call_mcp_rag_server(resp) ==
  CASE resp.kind = "timeout" -> "Sorry, the request timed out. Please try again."
    [] resp.kind = "connection_error" ->
         "Sorry, I couldn't connect to the server. Please try again."
    [] resp.kind = "http" /\ resp.status_code = 200 ->
         LET assistant_messages ==
               SelectRole(Get(resp.data, "messages", << >>), "assistant")
         IN  IF assistant_messages # << >> THEN Last(assistant_messages).content
             ELSE "Sorry, I couldn't process your request."
    [] OTHER -> "Sorry, I couldn't fetch an answer right now."

(***************************************************************************)
(* src/mcp_rag_server/main.py.  JSON values that are no strings stand as   *)
(* JsonList (a non-empty array) and JsonNumber (a non-zero number).        *)
(***************************************************************************)
JsonList == "<json list>"

JsonNumber == "<json number>"

IsStr(v) == v \notin {None, JsonList, JsonNumber}

\* v[:100] works on strings and lists and raises TypeError on a number.
Sliceable(v) == v # None /\ v # JsonNumber

\* Python's  a or b.
Or(a, b) == IF Truthy(a) THEN a ELSE b

\* Mutant of HitText: the field text is tried before the field answer.
HitText_textFirst(h) ==
  LET payload == IF ~IsDict(h.payload) THEN EmptyDict ELSE h.payload
  IN  Or(Get(payload, "text", None), Or(Get(payload, "answer", None), "<no-answer-field>"))

\* Lines 81-82: the text of one hit; h.payload is a dict or None.
HitText(h) ==
  LET payload == IF ~IsDict(h.payload) THEN EmptyDict ELSE h.payload
  IN  Or(Get(payload, "answer", None), Or(Get(payload, "text", None), "<no-answer-field>"))

RECURSIVE HitTexts(_)
\* The loop of lines 78-85.
HitTexts(hits) ==
  IF hits = << >> THEN << >> ELSE <<HitText(Head(hits))>> \o HitTexts(Tail(hits))

\* Mutant of retrieve_context: no placeholder is put in for an empty result.
retrieve_context_noPlaceholder(input_dict, embedded, search) ==
  IF "question" \notin DOMAIN input_dict \/ ~embedded \/ search = Failure
  THEN [question |-> Get(input_dict, "question", ""),
        context  |-> <<"Error retrieving context from database.">>]
  ELSE [question |-> input_dict.question, context |-> HitTexts(search.hits)]

\* Mutant of retrieve_context: an exception yields the placeholder of zero hits.
retrieve_context_samePlaceholder(input_dict, embedded, search) ==
  IF "question" \notin DOMAIN input_dict \/ ~embedded \/ search = Failure
  THEN [question |-> Get(input_dict, "question", ""),
        context  |-> <<"No relevant context found in the database.">>]
  ELSE LET context_texts == HitTexts(search.hits)
       IN  [question |-> input_dict.question,
            context  |-> IF context_texts = << >>
                         THEN <<"No relevant context found in the database.">>
                         ELSE context_texts]

\* retrieve_context (lines 60-97).  embedded: get_embedding returned a vector;
\* search: Failure when qdrant.search raised, else [hits |-> the ranked hits].
retrieve_context(input_dict, embedded, search) ==
  IF "question" \notin DOMAIN input_dict \/ ~embedded \/ search = Failure
  THEN [question |-> Get(input_dict, "question", ""),
        context  |-> <<"Error retrieving context from database.">>]
  ELSE LET context_texts == HitTexts(search.hits)
       IN  [question |-> input_dict.question,
            context  |-> IF context_texts = << >>
                         THEN <<"No relevant context found in the database.">>
                         ELSE context_texts]

RECURSIVE Join_singleNewline(_, _)
\* Mutant of Join: the items are joined by one line break whatever sep is.
Join_singleNewline(sep, items) ==
  IF items = << >> THEN ""
  ELSE IF Len(items) = 1 THEN Head(items)
  ELSE Head(items) \o "\n" \o Join_singleNewline(sep, Tail(items))

RECURSIVE Join(_, _)
\* sep.join(items)
Join(sep, items) ==
  IF items = << >> THEN ""
  ELSE IF Len(items) = 1 THEN Head(items)
  ELSE Head(items) \o sep \o Join(sep, Tail(items))

\* Mutant of build_rag_prompt: a missing context is read as an empty list.
build_rag_prompt_missingAsEmpty(input_dict) ==
  IF \/ "question" \notin DOMAIN input_dict
     \/ \E i \in DOMAIN Get(input_dict, "context", << >>) : ~IsStr(input_dict.context[i])
  THEN [question |-> Get(input_dict, "question", ""),
        prompt   |-> "Question: " \o Get(input_dict, "question", "") \o "\nAnswer:"]
  ELSE [question |-> input_dict.question,
        prompt   |-> "Use the following context to answer the question:\n\n"
                     \o Join("\n\n", Get(input_dict, "context", << >>))
                     \o "\n\nQuestion: " \o input_dict.question \o "\nAnswer:"]

\* build_rag_prompt (lines 99-112).  A missing key raises KeyError and a
\* context item that is no string makes join raise TypeError: both end in
\* the except clause of line 110.
build_rag_prompt(input_dict) ==
  IF \/ "question" \notin DOMAIN input_dict
     \/ "context" \notin DOMAIN input_dict
     \/ \E i \in DOMAIN Get(input_dict, "context", << >>) : ~IsStr(input_dict.context[i])
  THEN [question |-> Get(input_dict, "question", ""),
        prompt   |-> "Question: " \o Get(input_dict, "question", "") \o "\nAnswer:"]
  ELSE [question |-> input_dict.question,
        prompt   |-> "Use the following context to answer the question:\n\n"
                     \o Join("\n\n", input_dict.context)
                     \o "\n\nQuestion: " \o input_dict.question \o "\nAnswer:"]

\* What m["role"] and m["content"] raise on a message without that key.
KeyError == "<KeyError>"

RECURSIVE FirstAssistantContent(_)
\* Line 134: next((m["content"] for m in messages if m["role"] == "assistant"), None)
\* The generator stops at the first assistant message it meets.
FirstAssistantContent(msgs) ==
  IF msgs = << >> THEN None
  ELSE IF "role" \notin DOMAIN Head(msgs) THEN KeyError
  ELSE IF Head(msgs).role = "assistant" THEN Get(Head(msgs), "content", KeyError)
  ELSE FirstAssistantContent(Tail(msgs))

\* Mutant of llm_mcp_call: a timeout falls into the last except clause.
llm_mcp_call_timeoutUnsorted(input_dict, resp) ==
  IF "prompt" \notin DOMAIN input_dict
  THEN "Sorry, there was an error generating the response."
  ELSE
  CASE resp.kind = "connection_error" ->
         "Sorry, I couldn't connect to the language model. Please try again."
    [] resp.kind = "http" /\ resp.status_code # 200 ->
         "Sorry, the language model is currently unavailable."
    [] resp.kind = "http" /\ resp.status_code = 200 /\ IsDict(resp.data) ->
         LET assistant_content == FirstAssistantContent(Get(resp.data, "messages", << >>))
         IN  IF assistant_content = KeyError
             THEN "Sorry, there was an error generating the response."
             ELSE IF Truthy(assistant_content)
             THEN IF Sliceable(assistant_content) THEN assistant_content
                  ELSE "Sorry, there was an error generating the response."
             ELSE "I couldn't generate a response. Please try again."
    [] OTHER -> "Sorry, there was an error generating the response."

\* llm_mcp_call (lines 114-153) on the outcome resp of its one requests.post.
llm_mcp_call(input_dict, resp) ==
  IF "prompt" \notin DOMAIN input_dict
  THEN "Sorry, there was an error generating the response."
  ELSE
  CASE resp.kind = "timeout" -> "Sorry, the request timed out. Please try again."
    [] resp.kind = "connection_error" ->
         "Sorry, I couldn't connect to the language model. Please try again."
    [] resp.kind = "http" /\ resp.status_code # 200 ->
         "Sorry, the language model is currently unavailable."
    [] resp.kind = "http" /\ resp.status_code = 200 /\ IsDict(resp.data) ->
         LET assistant_content == FirstAssistantContent(Get(resp.data, "messages", << >>))
         IN  IF assistant_content = KeyError
             THEN "Sorry, there was an error generating the response."
             ELSE IF Truthy(assistant_content)
             THEN IF Sliceable(assistant_content) THEN assistant_content
                  ELSE "Sorry, there was an error generating the response."
             ELSE "I couldn't generate a response. Please try again."
    [] OTHER -> "Sorry, there was an error generating the response."

\* What qdrant.search can answer in this model.
Hit(payload) == [payload |-> payload]

SearchOutcomes ==
  { Failure,
    [hits |-> << >>],
    [hits |-> <<Hit([question |-> "k1", answer |-> "ctx1"])>>],
    [hits |-> <<Hit([text |-> "ctx2"]), Hit([question |-> "k3"]), Hit(JsonNull)>>],
    [hits |-> <<Hit([answer |-> JsonNumber])>>] }

\* What the generation backend can answer to the prompt in this model.
LlmReply(msgs) == [kind |-> "http", status_code |-> 200, data |-> [messages |-> msgs]]

LlmResponses(prompt) ==
  LET sys == [role |-> "system", content |-> prompt]
  IN  { LlmReply(<<sys, [role |-> "assistant", content |-> AnswerTo(prompt)]>>),
        LlmReply(<<sys>>),
        LlmReply(<<sys, [role |-> "assistant", content |-> ""]>>),
        LlmReply(<<sys, [role |-> "assistant", content |-> JsonList]>>),
        LlmReply(<<sys, [role |-> "assistant", content |-> JsonNumber]>>),
        [kind |-> "http", status_code |-> 200, data |-> JsonNull],
        [kind |-> "http", status_code |-> 503, data |-> EmptyDict],
        [kind |-> "timeout"],
        [kind |-> "connection_error"],
        [kind |-> "error"] }

\* The /ask requests of this model: their messages.
Msg(role, content) == [role |-> role, content |-> content]

AskRequests ==
  { <<Msg("system", "You are a helpful assistant."), Msg("user", "q1")>>,
    <<Msg("user", "q0"), Msg("assistant", "a0"), Msg("user", "q1")>>,
    <<Msg("system", "You are a helpful assistant.")>>,
    << >> }

\* str(HTTPException(status_code, detail))
HTTPException(status_code, detail) == [status_code |-> status_code, detail |-> detail]

\* Lines 187-189: whatever was raised inside ask's try becomes a 500.
AskExcept(e) == HTTPException(500, e)

(***************************************************************************)
(* State.                                                                  *)
(***************************************************************************)
VARIABLES
  payload,       \* payload[d]: the payload of delivery d, None before it arrives
  pc,            \* pc[d]: where the handler of delivery d stands
  messages,      \* messages[d]: handle_message's local messages
  answer,        \* answer[d]: handle_message's local answer
  acksSent,      \* acksSent[env]: acknowledgments sent with envelope id env
  acksFailed,    \* acksFailed[env]: acknowledgment sends for env that raised
  historyCalls,  \* historyCalls[d]: the conversations_history calls of delivery d
  ragCalls,      \* ragCalls[d]: the payloads delivery d posted to the RAG server
  posts,         \* posts[d]: the chat_postMessage calls of delivery d, in order
  askPc,         \* where the /ask request stands
  askRequest,    \* request.messages of the /ask request
  piped,         \* the value rag_sequence hands to its next stage
  stages,        \* the stages of rag_sequence invoked so far, in order
  stageIn,       \* stageIn[i]: the argument of the i-th stage invoked
  stageOut,      \* stageOut[i]: what the i-th stage invoked returned
  askResponse,   \* the HTTP response of /ask, None before it is sent
  call,          \* one call of a function on its own: its arguments and result
  importPc,      \* where the bulk importer's main stands
  BATCH_SIZE,    \* writer.py's BATCH_SIZE, None before the module is loaded
  csv,           \* the CSV file: its header and its rows
  nextRow,       \* the rows read_qa_csv has read so far
  idx,           \* main's idx, the count of enumerate
  batch,         \* main's batch
  total,         \* main's total
  upserted       \* the lists of points client.upsert has received, in order

botVars ==
  <<payload, pc, messages, answer, acksSent, acksFailed, historyCalls, ragCalls, posts>>

askVars == <<askPc, askRequest, piped, stages, stageIn, stageOut, askResponse>>

impVars == <<importPc, BATCH_SIZE, csv, nextRow, idx, batch, total, upserted>>

vars == <<botVars, askVars, call, impVars>>

Deliveries == 1..MaxDeliveries

\* SocketModeRequest.envelope_id of delivery d.
EnvelopeId(d) == d

NoPayload == [none |-> TRUE]

NoCall == [fn |-> "none"]

NoCsv == [header |-> << >>, rows |-> << >>]

Init ==
  /\ payload      = [d \in Deliveries |-> NoPayload]
  /\ pc           = [d \in Deliveries |-> "idle"]
  /\ messages     = [d \in Deliveries |-> << >>]
  /\ answer       = [d \in Deliveries |-> None]
  /\ acksSent     = [d \in Deliveries |-> 0]
  /\ acksFailed   = [d \in Deliveries |-> 0]
  /\ historyCalls = [d \in Deliveries |-> << >>]
  /\ ragCalls     = [d \in Deliveries |-> << >>]
  /\ posts        = [d \in Deliveries |-> << >>]
  /\ askPc        = "idle"
  /\ askRequest   = << >>
  /\ piped        = EmptyDict
  /\ stages       = << >>
  /\ stageIn      = << >>
  /\ stageOut     = << >>
  /\ askResponse  = EmptyDict
  /\ call         = NoCall
  /\ importPc     = "idle"
  /\ BATCH_SIZE   = None
  /\ csv          = NoCsv
  /\ nextRow      = 0
  /\ idx          = 0
  /\ batch        = << >>
  /\ total        = 0
  /\ upserted     = << >>

EventOf(d) == Get(payload[d], "event", EmptyDict)

(***************************************************************************)
(* The transport.                                                          *)
(***************************************************************************)
Delivered == { d \in Deliveries : pc[d] # "idle" }

DeliveredPayloads == { payload[d] : d \in Delivered }

\* The transport hands the next request to the listener: a new event, or
\* once more an event it delivered before (at-least-once delivery).
Deliver(d) ==
  /\ pc[d] = "idle"
  /\ \A d2 \in Deliveries : d2 < d => pc[d2] # "idle"
  /\ \E e \in EventIds :
       \E p \in PayloadsOf(e) :
         /\ \A q \in DeliveredPayloads : q.event_id = e => q = p
         /\ payload' = [payload EXCEPT ![d] = p]
  /\ pc' = [pc EXCEPT ![d] = "recv"]
  /\ UNCHANGED <<messages, answer, acksSent, acksFailed, historyCalls, ragCalls, posts,
                 askVars, call, impVars>>

(***************************************************************************)
(* events_api_handler (bot.py 138-162) and handle_message (bot.py 87-136). *)
(***************************************************************************)
\* Mutant of ThreadTs: the event's own ts, whether it has a thread root or not.
ThreadTs_ownTs(event) == Get(event, "ts", None)

\* thread_ts = event.get("thread_ts", ts), lines 92 and 103, and line 129.
ThreadTs(event) == Get(event, "thread_ts", Get(event, "ts", None))

\* Mutant of Skipped: the bot_id check left out.
Skipped_noBotCheck(event) ==
  \/ ~Truthy(Get(event, "user", None))
  \/ Truthy(Get(event, "subtype", None))

\* Line 99: not user or event.get("subtype") or event.get("bot_id").
Skipped(event) ==
  \/ ~Truthy(Get(event, "user", None))
  \/ Truthy(Get(event, "subtype", None))
  \/ Truthy(Get(event, "bot_id", None))

\* client.send_socket_mode_response(SocketModeResponse(envelope_id=req.envelope_id)):
\* the response goes out, or the send raises.
SendAck(d, sent) ==
  /\ acksSent'   = IF sent THEN [acksSent EXCEPT ![EnvelopeId(d)] = @ + 1] ELSE acksSent
  /\ acksFailed' = IF sent THEN acksFailed ELSE [acksFailed EXCEPT ![EnvelopeId(d)] = @ + 1]

\* Mutant of AckFirst: the handler goes on to process without acknowledging.
AckFirst_unsent(d) ==
  /\ pc[d] = "recv"
  /\ pc' = [pc EXCEPT ![d] = "acked"]
  /\ UNCHANGED <<payload, messages, answer, acksSent, acksFailed, historyCalls, ragCalls,
                 posts, askVars, call, impVars>>

\* Lines 143-144: the first acknowledgment.  A send that raises leads to the
\* except clause of line 154.
AckFirst(d) ==
  /\ pc[d] = "recv"
  /\ \E sent \in BOOLEAN :
       /\ SendAck(d, sent)
       /\ pc' = [pc EXCEPT ![d] = IF sent THEN "acked" ELSE "except"]
  /\ UNCHANGED <<payload, messages, answer, historyCalls, ragCalls, posts, askVars,
                 call, impVars>>

\* Where the handler goes after the acknowledgment: lines 148-152 and the
\* entry of handle_message, lines 89-101.  event.get on a non-dict raises
\* into the except clause of line 154.
Dispatch(event) ==
  IF ~IsDict(event) THEN "except"
  ELSE IF Get(event, "type", None) # "message" THEN "done"
  ELSE IF Skipped(event) THEN "done"
  ELSE "fetch"

TypeCheck(d) ==
  /\ pc[d] = "acked"
  /\ pc' = [pc EXCEPT ![d] = Dispatch(EventOf(d))]
  /\ UNCHANGED <<payload, messages, answer, acksSent, acksFailed, historyCalls,
                 ragCalls, posts, askVars, call, impVars>>

\* Lines 109-110: fetch the history and append the new user message.
FetchHistory(d) ==
  /\ pc[d] = "fetch"
  /\ \E resp \in HistoryResponses :
       /\ messages' = [messages EXCEPT ![d] =
                         Append(fetch_history(resp),
                                [role |-> "user", content |-> Get(EventOf(d), "text", "")])]
       /\ historyCalls' = [historyCalls EXCEPT ![d] =
                             Append(@, [channel   |-> Get(EventOf(d), "channel", None),
                                        latest    |-> ThreadTs(EventOf(d)),
                                        limit     |-> HISTORY_LIMIT,
                                        inclusive |-> TRUE,
                                        failed    |-> resp = Failure])]
  /\ pc' = [pc EXCEPT ![d] = "rag"]
  /\ UNCHANGED <<payload, answer, acksSent, acksFailed, ragCalls, posts, askVars, call,
                 impVars>>

\* Mutant of CallRag: answer is one module-level variable of all handlers.
CallRag_sharedAnswer(d) ==
  /\ pc[d] = "rag"
  /\ \E resp \in RagResponses(messages[d]) :
       answer' = [d2 \in Deliveries |-> call_mcp_rag_server(resp)]
  /\ ragCalls' = [ragCalls EXCEPT ![d] = Append(@, RagPayload(messages[d]))]
  /\ pc' = [pc EXCEPT ![d] = "post"]
  /\ UNCHANGED <<payload, messages, acksSent, acksFailed, historyCalls, posts, askVars,
                 call, impVars>>

\* Line 113.
CallRag(d) ==
  /\ pc[d] = "rag"
  /\ \E resp \in RagResponses(messages[d]) :
       answer' = [answer EXCEPT ![d] = call_mcp_rag_server(resp)]
  /\ ragCalls' = [ragCalls EXCEPT ![d] = Append(@, RagPayload(messages[d]))]
  /\ pc' = [pc EXCEPT ![d] = "post"]
  /\ UNCHANGED <<payload, messages, acksSent, acksFailed, historyCalls, posts, askVars,
                 call, impVars>>

\* A chat_postMessage call and whether the transport accepted it.
PostCall(event, text, kind, ok) ==
  [channel   |-> Get(event, "channel", None),
   thread_ts |-> ThreadTs(event),
   text      |-> text,
   kind      |-> kind,
   ok        |-> ok]

\* Mutant of PostReply: a post that raises is only logged, no apology follows.
PostReply_noApology(d) ==
  /\ pc[d] = "post"
  /\ \E ok \in BOOLEAN :
       posts' = [posts EXCEPT ![d] =
                   Append(@, PostCall(EventOf(d), answer[d], "reply", ok))]
  /\ pc' = [pc EXCEPT ![d] = "done"]
  /\ UNCHANGED <<payload, messages, answer, acksSent, acksFailed, historyCalls, ragCalls,
                 askVars, call, impVars>>

\* Lines 117-121: post the answer; a post that raises leads to line 124.
PostReply(d) ==
  /\ pc[d] = "post"
  /\ \E ok \in BOOLEAN :
       /\ posts' = [posts EXCEPT ![d] =
                      Append(@, PostCall(EventOf(d), answer[d], "reply", ok))]
       /\ pc' = [pc EXCEPT ![d] = IF ok THEN "done" ELSE "apology"]
  /\ UNCHANGED <<payload, messages, answer, acksSent, acksFailed, historyCalls,
                 ragCalls, askVars, call, impVars>>

ApologyText == "Sorry, something went wrong processing your message. Please try again."

\* Lines 127-136: the apology, whose own failure is only logged.
PostApology(d) ==
  /\ pc[d] = "apology"
  /\ \E ok \in BOOLEAN :
       posts' = [posts EXCEPT ![d] =
                   Append(@, PostCall(EventOf(d), ApologyText, "apology", ok))]
  /\ pc' = [pc EXCEPT ![d] = "done"]
  /\ UNCHANGED <<payload, messages, answer, acksSent, acksFailed, historyCalls,
                 ragCalls, askVars, call, impVars>>

\* Lines 154-162: the except clause acknowledges (again); a failure of this
\* send is only logged.
AckInExcept(d) ==
  /\ pc[d] = "except"
  /\ \E sent \in BOOLEAN : SendAck(d, sent)
  /\ pc' = [pc EXCEPT ![d] = "done"]
  /\ UNCHANGED <<payload, messages, answer, historyCalls, ragCalls, posts, askVars,
                 call, impVars>>

Next ==
  \E d \in Deliveries :
    \/ Deliver(d)
    \/ AckFirst(d)
    \/ TypeCheck(d)
    \/ FetchHistory(d)
    \/ CallRag(d)
    \/ PostReply(d)
    \/ PostApology(d)
    \/ AckInExcept(d)

Spec == Init /\ [][Next]_vars

(***************************************************************************)
(* ask (main.py 164-189) and rag_sequence (main.py 157-161).               *)
(***************************************************************************)
AskReceive ==
  /\ askPc = "idle"
  /\ \E m \in AskRequests : askRequest' = m
  /\ askPc' = "check"
  /\ UNCHANGED <<piped, stages, stageIn, stageOut, askResponse, botVars, call, impVars>>

\* Lines 169-174: without a user message HTTPException(400) is raised inside
\* the try and reaches the except clause of line 187.
AskCheck ==
  /\ askPc = "check"
  /\ LET user_messages == SelectRole(askRequest, "user") IN
       IF user_messages = << >>
       THEN /\ askResponse' = AskExcept("400: No user message found")
            /\ askPc' = "done"
            /\ UNCHANGED piped
       ELSE /\ piped' = [question |-> Last(user_messages).content]
            /\ askPc' = "retrieve"
            /\ UNCHANGED askResponse
  /\ UNCHANGED <<askRequest, stages, stageIn, stageOut, botVars, call, impVars>>

\* A stage of the sequence is invoked on value; what it returns is handed on.
Invoke(stage, value, result, next) ==
  /\ stages'   = Append(stages, stage)
  /\ stageIn'  = Append(stageIn, value)
  /\ stageOut' = Append(stageOut, result)
  /\ piped'    = result
  /\ askPc'    = next
  /\ UNCHANGED <<askRequest, askResponse, botVars, call, impVars>>

\* Mutant of Retrieve: when retrieval fell back, compose is skipped.
Retrieve_shortCircuit ==
  /\ askPc = "retrieve"
  /\ \E embedded \in BOOLEAN, search \in SearchOutcomes :
       Invoke("retrieve", piped, retrieve_context(piped, embedded, search),
              IF embedded /\ search # Failure THEN "compose" ELSE "generate")

Retrieve ==
  /\ askPc = "retrieve"
  /\ \E embedded \in BOOLEAN, search \in SearchOutcomes :
       Invoke("retrieve", piped, retrieve_context(piped, embedded, search), "compose")

Compose ==
  /\ askPc = "compose"
  /\ Invoke("compose", piped, build_rag_prompt(piped), "generate")

Generate ==
  /\ askPc = "generate"
  /\ \E resp \in LlmResponses(Get(piped, "prompt", "")) :
       Invoke("generate", piped, llm_mcp_call(piped, resp), "respond")

\* Mutant of AskRespond: the response holds the assistant message alone.
AskRespond_answerOnly ==
  /\ askPc = "respond"
  /\ askResponse' =
       IF IsStr(piped)
       THEN [status_code |-> 200, messages |-> <<Msg("assistant", piped)>>]
       ELSE AskExcept("validation error for MCPMessage")
  /\ askPc' = "done"
  /\ UNCHANGED <<askRequest, piped, stages, stageIn, stageOut, botVars, call, impVars>>

\* Lines 179-185: answer[:100] is logged and MCPMessage(content=answer) is
\* built; pydantic rejects a content that is no string, which raises into
\* the except clause of line 187.
AskRespond ==
  /\ askPc = "respond"
  /\ askResponse' =
       IF IsStr(piped)
       THEN [status_code |-> 200, messages |-> Append(askRequest, Msg("assistant", piped))]
       ELSE AskExcept("validation error for MCPMessage")
  /\ askPc' = "done"
  /\ UNCHANGED <<askRequest, piped, stages, stageIn, stageOut, botVars, call, impVars>>

NextAsk ==
  \/ AskReceive
  \/ AskCheck
  \/ Retrieve
  \/ Compose
  \/ Generate
  \/ AskRespond

SpecAsk == Init /\ [][NextAsk]_vars

(***************************************************************************)
(* What the runs of Spec show of a delivery.                               *)
(***************************************************************************)
Finished(d) == pc[d] = "done"

Acked(d) == acksSent[EnvelopeId(d)] >= 1

ReplyPosted(d) ==
  \E i \in DOMAIN posts[d] : posts[d][i].kind = "reply" /\ posts[d][i].ok

ApologyAttempts(d) == { i \in DOMAIN posts[d] : posts[d][i].kind = "apology" }

\* A message event of a user: type "message", a user, no bot_id, no subtype.
PlainUserMessage(event) ==
  /\ IsDict(event)
  /\ Get(event, "type", None) = "message"
  /\ "user" \in DOMAIN event
  /\ "bot_id" \notin DOMAIN event
  /\ "subtype" \notin DOMAIN event

\* The thread an event belongs to: its thread root when it has one, else itself.
ThreadOf(event) == IF "thread_ts" \in DOMAIN event THEN event.thread_ts ELSE event.ts

(***************************************************************************)
(* C1: a handler that has finished, and none of whose acknowledgment sends *)
(* raised, has sent exactly one acknowledgment with the envelope id of its *)
(* delivery, whatever happened while it processed the event.               *)
(***************************************************************************)
C1_ExactlyOneAck ==
  \A d \in Deliveries :
    Finished(d) /\ acksFailed[EnvelopeId(d)] = 0 => acksSent[EnvelopeId(d)] = 1

(***************************************************************************)
(* C2: every processing step of a delivery (the type check, the history    *)
(* fetch, the RAG call, a post) is taken after the acknowledgment of that  *)
(* delivery was sent: a handler that has reached or passed one of them has *)
(* acknowledged.                                                           *)
(***************************************************************************)
C2_AckBeforeProcessing ==
  \A d \in Deliveries :
    \/ pc[d] \in {"acked", "fetch", "rag", "post", "apology"}
    \/ historyCalls[d] # << >>
    \/ ragCalls[d] # << >>
    \/ posts[d] # << >>
    => Acked(d)

C2_Witness ==
  \E d \in Deliveries :
    /\ Finished(d)
    /\ historyCalls[d] # << >>
    /\ ragCalls[d] # << >>
    /\ ReplyPosted(d)
    /\ acksSent[EnvelopeId(d)] = 1

(***************************************************************************)
(* C3: over all deliveries, redeliveries included, at most one reply is    *)
(* posted per event_id.                                                    *)
(***************************************************************************)
C3_AtMostOneReplyPerEvent ==
  \A e \in EventIds :
    Cardinality({ d \in Delivered : payload[d].event_id = e /\ ReplyPosted(d) }) <= 1

(***************************************************************************)
(* C4: a finished and acknowledged delivery ended in exactly one of        *)
(* Ignored, Processed and Errored-but-Acknowledged: a user's message event *)
(* had its reply posted or else an apology attempted, and for any other    *)
(* event nothing was posted.                                               *)
(***************************************************************************)
C4_Lifecycle ==
  \A d \in Deliveries :
    Finished(d) /\ Acked(d) =>
      IF PlainUserMessage(EventOf(d))
      THEN ReplyPosted(d) # (ApologyAttempts(d) # {})
      ELSE posts[d] = << >>

(***************************************************************************)
(* C5: for an event whose type is not "message", or that has no user, or   *)
(* that carries a bot_id or a subtype, the handler fetches no history,     *)
(* calls the RAG server not at all and posts nothing.                      *)
(***************************************************************************)
C5_IgnoredEventsUntouched ==
  \A d \in Delivered :
    LET event == EventOf(d) IN
    IsDict(event) /\ ~PlainUserMessage(event) =>
      /\ historyCalls[d] = << >>
      /\ ragCalls[d] = << >>
      /\ posts[d] = << >>
      /\ pc[d] \notin {"fetch", "rag", "post", "apology"}

C5_Witness ==
  \E d \in Deliveries :
    /\ Finished(d)
    /\ acksSent[EnvelopeId(d)] = 1
    /\ IsDict(EventOf(d))
    /\ Get(EventOf(d), "type", None) = "message"
    /\ DOMAIN EventOf(d) \cap {"user", "bot_id", "subtype"} = {"user", "bot_id"}

(***************************************************************************)
(* C6: every history fetch and every post of a delivery (reply and         *)
(* apology) names the event's channel and the event's thread, which is its *)
(* thread_ts when present and its own ts otherwise, and the messages sent  *)
(* to the RAG server end with the event's text as a user message.          *)
(***************************************************************************)
C6_ThreadAndChannel ==
  \A d \in Delivered :
    LET event == EventOf(d) IN
    /\ \A i \in DOMAIN posts[d] :
         /\ posts[d][i].channel = event.channel
         /\ posts[d][i].thread_ts = ThreadOf(event)
    /\ \A i \in DOMAIN historyCalls[d] :
         /\ historyCalls[d][i].channel = event.channel
         /\ historyCalls[d][i].latest = ThreadOf(event)
    /\ \A i \in DOMAIN ragCalls[d] :
         Last(ragCalls[d][i].messages) = [role |-> "user", content |-> event.text]

C6_Witness ==
  \E d1, d2 \in Deliveries :
    /\ "thread_ts" \in DOMAIN EventOf(d1)
    /\ Len(posts[d1]) = 2
    /\ "thread_ts" \notin DOMAIN EventOf(d2)
    /\ ReplyPosted(d2)

(***************************************************************************)
(* C7: an apology is attempted exactly when the reply post failed, once,   *)
(* after it and to the same channel and thread; a failed apology is not    *)
(* retried and raises nothing (no second acknowledgment follows), so a     *)
(* delivery makes at most two post attempts.                               *)
(***************************************************************************)
C7_OneApologyAfterFailure ==
  \A d \in Deliveries :
    /\ Len(posts[d]) <= 2
    /\ \A i \in DOMAIN posts[d] : posts[d][i].kind = IF i = 1 THEN "reply" ELSE "apology"
    /\ Len(posts[d]) = 2 =>
         /\ ~posts[d][1].ok
         /\ posts[d][2].channel = posts[d][1].channel
         /\ posts[d][2].thread_ts = posts[d][1].thread_ts
         /\ posts[d][2].text = ApologyText
    /\ Finished(d) /\ posts[d] # << >> =>
         /\ ~posts[d][1].ok => Len(posts[d]) = 2
         /\ acksSent[EnvelopeId(d)] = 1

C7_Witness ==
  \E d \in Deliveries :
    /\ Finished(d)
    /\ Len(posts[d]) = 2
    /\ ~posts[d][2].ok

(***************************************************************************)
(* What the runs of SpecAsk show of a request.                             *)
(***************************************************************************)
HasUserMessage == SelectRole(askRequest, "user") # << >>

Answered == askPc = "done"

Pipeline == <<"retrieve", "compose", "generate">>

(***************************************************************************)
(* C8: for a request with a user message the stages run are a prefix of    *)
(* retrieve, compose, generate, each at most once, and all three once the  *)
(* sequence has returned; the first stage receives the question and each   *)
(* later stage the dict the stage before it returned.                      *)
(***************************************************************************)
C8_StagesInOrder ==
  /\ Len(stages) <= Len(Pipeline)
  /\ stages = SubSeq(Pipeline, 1, Len(stages))
  /\ askPc = "respond" \/ (Answered /\ HasUserMessage) => stages = Pipeline
  /\ Len(stages) >= 1 =>
       stageIn[1] = [question |-> Last(SelectRole(askRequest, "user")).content]
  /\ \A i \in 2..Len(stages) : stageIn[i] = stageOut[i - 1]
  /\ Len(stages) >= 2 => DOMAIN stageIn[2] = {"question", "context"}
  /\ Len(stages) >= 3 => DOMAIN stageIn[3] = {"question", "prompt"}

C8_Witness ==
  /\ Answered
  /\ stages = Pipeline
  /\ stageOut[1].context = <<"Error retrieving context from database.">>
  /\ askResponse.status_code = 200

(***************************************************************************)
(* C9: a request with a user message is never answered with an error:      *)
(* whatever the embedding, the index and the generation backend do, the    *)
(* response is a 200 carrying a text.                                      *)
(***************************************************************************)
C9_NeverPropagates ==
  Answered /\ HasUserMessage =>
    /\ askResponse.status_code = 200
    /\ IsStr(Last(askResponse.messages).content)

(***************************************************************************)
(* C10: a request without a user message is answered 400 and no stage of   *)
(* the pipeline is run for it.                                             *)
(***************************************************************************)
C10_NoUserMessageIs400 ==
  Answered /\ ~HasUserMessage =>
    /\ askResponse.status_code = 400
    /\ stages = << >>

(***************************************************************************)
(* retrieve_context on its own: one call on a question, with every outcome *)
(* of get_embedding and of qdrant.search over the payload shapes below.    *)
(***************************************************************************)
MaxHits == 2

Questions == {"q1", ""}

\* h.payload of a hit: None, a dict without the two fields, and the fields
\* answer and text absent, null, empty or filled.
HitPayloads ==
  { JsonNull,
    EmptyDict,
    [question |-> "k1"],
    [question |-> "k2", answer |-> "ans2"],
    [answer |-> "ans3", text |-> "txt3"],
    [text |-> "txt4"],
    [answer |-> "", text |-> "txt5"],
    [answer |-> None, text |-> "txt6"],
    [answer |-> "", text |-> ""],
    [answer |-> JsonNumber] }

SeqsUpTo(S, n) == UNION { [1..k -> S] : k \in 0..n }

RankedHits == { [i \in DOMAIN ps |-> Hit(ps[i])] : ps \in SeqsUpTo(HitPayloads, MaxHits) }

SearchResults == {Failure} \cup { [hits |-> hs] : hs \in RankedHits }

CallRetrieve ==
  /\ call = NoCall
  /\ \E question \in Questions, embedded \in BOOLEAN, search \in SearchResults :
       call' = [fn       |-> "retrieve_context",
                question |-> question,
                embedded |-> embedded,
                search   |-> search,
                result   |-> retrieve_context([question |-> question], embedded, search)]
  /\ UNCHANGED <<botVars, askVars, impVars>>

SpecRetrieve == Init /\ [][CallRetrieve]_vars

Retrieved == call.fn = "retrieve_context"

\* The call raised inside the try: the embedding or the search failed.
RetrieveRaised == Retrieved /\ (~call.embedded \/ call.search = Failure)

\* The search answered with these hits.
HitsFound == IF Retrieved /\ ~RetrieveRaised THEN call.search.hits ELSE << >>

\* C11: whatever the embedding and the index do (hits, no hit, an exception),
\* retrieve_context returns a result and raises nothing; the result carries
\* the question it was given, unchanged, and a context that is never empty.
C11_RetrieveTotal ==
  Retrieved =>
    /\ DOMAIN call.result = {"question", "context"}
    /\ call.result.question = call.question
    /\ Len(call.result.context) >= 1

\* Each kind of outcome is reached; here the search that found nothing.
C11_Witness == Retrieved /\ call.embedded /\ HitsFound = << >> /\ call.search # Failure

\* C18 as stated: on an exception the context is the placeholder of zero hits.
C18_SameAsZeroHits ==
  RetrieveRaised =>
    call.result = [question |-> call.question,
                   context  |-> <<"No relevant context found in the database.">>]

\* C18, amended: when the embedding or the search raises, retrieve_context
\* returns the question with the context ["Error retrieving context from
\* database."], which is not the value it returns for zero hits.
C18_ErrorPlaceholder ==
  /\ RetrieveRaised =>
       call.result = [question |-> call.question,
                      context  |-> <<"Error retrieving context from database.">>]
  /\ (Retrieved /\ ~RetrieveRaised /\ HitsFound = << >>) =>
       call.result = [question |-> call.question,
                      context  |-> <<"No relevant context found in the database.">>]

C18_Witness == RetrieveRaised /\ call.embedded /\ call.search = Failure

\* The field k of the payload of hit h is there (C19 as stated) ...
Present(h, k) == IsDict(h.payload) /\ k \in DOMAIN h.payload

\* ... and holds a value that is neither null nor empty (C19 amended).
Filled(h, k) == Present(h, k) /\ h.payload[k] # None /\ h.payload[k] # ""

\* C19 as stated: with n >= 1 hits the context has n items in ranking order,
\* item i being the field answer of hit i if present, else text if present,
\* else the sentinel.
C19_PresentFieldWins ==
  Len(HitsFound) >= 1 =>
    /\ Len(call.result.context) = Len(HitsFound)
    /\ \A i \in DOMAIN HitsFound :
         call.result.context[i] =
           IF Present(HitsFound[i], "answer") THEN HitsFound[i].payload.answer
           ELSE IF Present(HitsFound[i], "text") THEN HitsFound[i].payload.text
           ELSE "<no-answer-field>"

\* C19, amended: with n >= 1 hits the context has exactly n items in ranking
\* order, item i being the field answer of hit i if it is present and neither
\* null nor empty, else the field text under the same condition, else the
\* sentinel "<no-answer-field>"; a missing payload gives the sentinel.
C19_FilledFieldWins ==
  Len(HitsFound) >= 1 =>
    /\ Len(call.result.context) = Len(HitsFound)
    /\ \A i \in DOMAIN HitsFound :
         call.result.context[i] =
           IF Filled(HitsFound[i], "answer") THEN HitsFound[i].payload.answer
           ELSE IF Filled(HitsFound[i], "text") THEN HitsFound[i].payload.text
           ELSE "<no-answer-field>"

\* Two hits, the first with an empty answer beside its text, the second
\* without payload.
C19_Witness ==
  /\ Len(HitsFound) = 2
  /\ HitsFound[1].payload = [answer |-> "", text |-> "txt5"]
  /\ HitsFound[2].payload = JsonNull
  /\ call.result.context = <<"txt5", "<no-answer-field>">>

(***************************************************************************)
(* llm_mcp_call on its own: one call on a prompt, with every outcome of    *)
(* its requests.post over the replies below.                               *)
(***************************************************************************)
MaxReply == 3

\* The entries a reply's "messages" can hold; the last one has no role.
ReplyEntries ==
  { Msg("system", "p1"),
    Msg("assistant", "a1"),
    Msg("assistant", "a2"),
    Msg("assistant", ""),
    Msg("assistant", JsonNumber),
    [content |-> "a3"] }

LlmOutcomes ==
  { [kind |-> "timeout"], [kind |-> "connection_error"], [kind |-> "error"],
    [kind |-> "http", status_code |-> 503, data |-> EmptyDict],
    [kind |-> "http", status_code |-> 404, data |-> LlmReply(<<Msg("assistant", "a1")>>).data],
    [kind |-> "http", status_code |-> 200, data |-> JsonNull],
    [kind |-> "http", status_code |-> 200, data |-> EmptyDict] }
  \cup { LlmReply(msgs) : msgs \in SeqsUpTo(ReplyEntries, MaxReply) }

CallGenerate ==
  /\ call = NoCall
  /\ \E resp \in LlmOutcomes :
       call' = [fn     |-> "llm_mcp_call",
                resp   |-> resp,
                result |-> llm_mcp_call([question |-> "q1", prompt |-> "p1"], resp)]
  /\ UNCHANGED <<botVars, askVars, impVars>>

SpecGenerate == Init /\ [][CallGenerate]_vars

Generated == call.fn = "llm_mcp_call"

\* The backend answered with this status code.
Status(code) == Generated /\ call.resp.kind = "http" /\ call.resp.status_code = code

\* The messages of a 200 reply that is a JSON object.
ReplyMessages ==
  IF Status(200) /\ IsDict(call.resp.data) THEN Get(call.resp.data, "messages", << >>)
  ELSE << >>

\* A 200 reply that is a JSON object whose messages all have role and content.
WellFormed ==
  /\ Status(200) /\ IsDict(call.resp.data)
  /\ \A i \in DOMAIN ReplyMessages : DOMAIN ReplyMessages[i] = {"role", "content"}

AssistantEntries == IF WellFormed THEN SelectRole(ReplyMessages, "assistant") ELSE << >>

\* C12: llm_mcp_call never raises and classifies its failures: HTTP 200 with
\* no assistant message, a status other than 200, a timeout, a connection
\* error, and any other exception (a malformed reply among them) each give
\* their one fixed string.
C12_FailureTable ==
  Generated =>
    /\ (WellFormed /\ AssistantEntries = << >>) =>
         call.result = "I couldn't generate a response. Please try again."
    /\ (call.resp.kind = "http" /\ call.resp.status_code # 200) =>
         call.result = "Sorry, the language model is currently unavailable."
    /\ call.resp.kind = "timeout" =>
         call.result = "Sorry, the request timed out. Please try again."
    /\ call.resp.kind = "connection_error" =>
         call.result = "Sorry, I couldn't connect to the language model. Please try again."
    /\ (call.resp.kind = "error" \/ (Status(200) /\ ~IsDict(call.resp.data))) =>
         call.result = "Sorry, there was an error generating the response."
    /\ call.result # KeyError /\ call.result # None

\* A timeout, answered with its own string.
C12_Witness ==
  /\ Generated /\ call.resp.kind = "timeout"
  /\ call.result = "Sorry, the request timed out. Please try again."

\* C13: on HTTP 200 with an assistant message in the reply, llm_mcp_call
\* returns the content of the last assistant entry, whatever the reply's
\* shape (several assistant entries, an assistant entry with empty content).
C13_LastAssistantWins ==
  (WellFormed /\ AssistantEntries # << >>) => call.result = Last(AssistantEntries).content

(***************************************************************************)
(* build_rag_prompt on its own: one call on an input with or without its   *)
(* fields question and context.                                            *)
(***************************************************************************)
MaxContext == 3

\* The items of a context: texts, the empty text, and a value that is no text.
ContextItems == {"c1", "c2", "", JsonNumber}

ComposeInputs ==
  { [question |-> q, context |-> c] :
      q \in Questions, c \in SeqsUpTo(ContextItems, MaxContext) }
  \cup { [question |-> q] : q \in Questions }
  \cup { [context |-> <<"c1">>] }

CallCompose ==
  /\ call = NoCall
  /\ \E input_dict \in ComposeInputs :
       call' = [fn     |-> "build_rag_prompt",
                input  |-> input_dict,
                result |-> build_rag_prompt(input_dict)]
  /\ UNCHANGED <<botVars, askVars, impVars>>

SpecCompose == Init /\ [][CallCompose]_vars

\* compose was called on a question ...
Composed == call.fn = "build_rag_prompt" /\ "question" \in DOMAIN call.input

\* ... and a context whose items are all texts.
ComposedContext ==
  /\ Composed /\ "context" \in DOMAIN call.input
  /\ \A i \in DOMAIN call.input.context : IsStr(call.input.context[i])

RECURSIVE JoinedByBlankLine(_)
\* The items from first to last, a blank line between neighbours.
JoinedByBlankLine(items) ==
  IF Len(items) = 0 THEN ""
  ELSE IF Len(items) = 1 THEN items[1]
  ELSE JoinedByBlankLine(SubSeq(items, 1, Len(items) - 1)) \o "\n\n" \o items[Len(items)]

\* The template of spec section 4.2.
Template(question, context) ==
  "Use the following context to answer the question:\n\n" \o JoinedByBlankLine(context)
    \o "\n\nQuestion: " \o question \o "\nAnswer:"

\* C14: for every question and every non-empty context of texts, the prompt
\* is exactly the template with the items joined by a blank line, and the
\* question is handed on unchanged.
C14_ExactTemplate ==
  (ComposedContext /\ call.input.context # << >>) =>
    call.result = [question |-> call.input.question,
                   prompt   |-> Template(call.input.question, call.input.context)]

C14_Witness ==
  /\ ComposedContext /\ call.input.context = <<"c1", "c2">> /\ call.input.question = "q1"
  /\ call.result.prompt =
       "Use the following context to answer the question:\n\nc1\n\nc2\n\nQuestion: q1\nAnswer:"

\* C15 as stated: without a context field the prompt is the one of an empty
\* context, the template with an empty joined context.
C15_MissingIsEmptyContext ==
  (Composed /\ "context" \notin DOMAIN call.input) =>
    call.result.prompt = Template(call.input.question, << >>)

\* C15, amended: without a context field the prompt is "Question: " followed
\* by the question and "\nAnswer:", with no context section; an empty context
\* gives the template with an empty joined context, which is another prompt.
C15_MissingIsBarePrompt ==
  /\ (Composed /\ "context" \notin DOMAIN call.input) =>
       /\ call.result = [question |-> call.input.question,
                         prompt   |-> "Question: " \o call.input.question \o "\nAnswer:"]
       /\ call.result.prompt # Template(call.input.question, << >>)
  /\ (ComposedContext /\ call.input.context = << >>) =>
       call.result.prompt = Template(call.input.question, << >>)

C15_Witness ==
  /\ Composed /\ call.input = [question |-> "q1"]
  /\ call.result.prompt = "Question: q1\nAnswer:"

(***************************************************************************)
(* fetch_history on its own: one call against a channel that stores up to  *)
(* MaxStored messages at or before the thread's ts.                        *)
(***************************************************************************)
MaxStored == 8

\* The kinds of stored message: a user's, a bot's, one carrying a subtype.
Kinds == {"user", "bot", "subtype"}

\* The stored message that is the i-th newest, of kind k.
Stored(i, k) ==
  LET text == [text |-> "m" \o ToString(i)] IN
  CASE k = "user"    -> text @@ [user |-> "U1"]
    [] k = "bot"     -> text @@ [bot_id |-> "B1"]
    [] k = "subtype" -> text @@ [user |-> "U1", subtype |-> "channel_join"]

\* The channels: their messages at or before the thread's ts, newest first.
Channels == { [i \in DOMAIN ks |-> Stored(i, ks[i])] : ks \in SeqsUpTo(Kinds, MaxStored) }

\* conversations_history(latest=thread_ts, limit=limit, inclusive=True) on a
\* channel: the limit newest of these messages, newest first.
conversations_history(stored, limit) ==
  [ok |-> TRUE,
   messages |-> SubSeq(stored, 1, IF Len(stored) < limit THEN Len(stored) ELSE limit)]

CallFetchHistory ==
  /\ call = NoCall
  /\ \E stored \in Channels :
       \E resp \in {Failure, conversations_history(stored, HISTORY_LIMIT)} :
         call' = [fn     |-> "fetch_history",
                  stored |-> stored,
                  resp   |-> resp,
                  result |-> fetch_history(resp)]
  /\ UNCHANGED <<botVars, askVars, impVars>>

SpecHistory == Init /\ [][CallFetchHistory]_vars

\* The transport answered a channel that stores at least limit messages.
FetchedFull ==
  /\ call.fn = "fetch_history" /\ call.resp # Failure
  /\ Len(call.stored) >= HISTORY_LIMIT

\* The entry fetch_history makes of a stored message.
EntryOf(msg) ==
  [role |-> IF "bot_id" \in DOMAIN msg THEN "assistant" ELSE "user", content |-> msg.text]

NoSubtype(msg) == "subtype" \notin DOMAIN msg

\* The limit newest stored messages, oldest first.
Chronological ==
  [i \in 1..HISTORY_LIMIT |-> call.stored[HISTORY_LIMIT + 1 - i]]

\* C16 as stated: with at least limit messages stored, the history has
\* exactly limit + 1 entries, the system message and then limit messages in
\* chronological order with their roles, none of them carrying a subtype.
C16_ExactlyLimitPlusOne ==
  FetchedFull =>
    /\ Len(call.result) = HISTORY_LIMIT + 1
    /\ call.result[1] = SystemMessage
    /\ \A i \in 1..HISTORY_LIMIT :
         NoSubtype(Chronological[i]) /\ call.result[i + 1] = EntryOf(Chronological[i])

\* C16, amended: with at least limit messages stored, the history is the
\* system message followed by those of the limit newest messages that carry
\* no subtype, in chronological order with their roles; it has at most
\* limit + 1 entries, and exactly limit + 1 when none of the limit newest
\* carries a subtype.
C16_AtMostLimitPlusOne ==
  FetchedFull =>
    LET kept == SelectSeq(Chronological, NoSubtype) IN
    /\ call.result = <<SystemMessage>> \o [i \in DOMAIN kept |-> EntryOf(kept[i])]
    /\ Len(call.result) <= HISTORY_LIMIT + 1
    /\ Len(call.result) = HISTORY_LIMIT + 1 <=>
         \A i \in 1..HISTORY_LIMIT : NoSubtype(Chronological[i])

\* Eight stored messages, the third newest carrying a subtype: six entries.
C16_Witness ==
  /\ FetchedFull /\ Len(call.stored) = 8
  /\ ~NoSubtype(call.stored[3]) /\ "bot_id" \in DOMAIN call.stored[6]
  /\ \A i \in 1..HISTORY_LIMIT : i # 3 => NoSubtype(call.stored[i])
  /\ Len(call.result) = HISTORY_LIMIT
  /\ call.result[2] = [role |-> "assistant", content |-> "m6"]

(***************************************************************************)
(* C17: when the history call of a delivery fails, fetch_history returns   *)
(* the system message alone and raises nothing: the handler goes on, calls *)
(* the RAG server with the system message and the event's text as a user   *)
(* message, and posts the answer of that call as its reply, no apology in  *)
(* its place.                                                              *)
(***************************************************************************)
HistoryFailed(d) == historyCalls[d] # << >> /\ historyCalls[d][1].failed

C17_FailedHistoryStillAnswers ==
  \A d \in Deliveries :
    HistoryFailed(d) =>
      /\ messages[d] = <<SystemMessage, [role |-> "user", content |-> EventOf(d).text]>>
      /\ pc[d] \in {"rag", "post", "apology", "done"}
      /\ pc[d] # "rag" => ragCalls[d] = <<RagPayload(messages[d])>>
      /\ pc[d] \notin {"rag", "post"} =>
           /\ posts[d] # << >>
           /\ posts[d][1].kind = "reply"
           /\ posts[d][1].text = answer[d]
           /\ answer[d] # ApologyText
      /\ pc[d] = "apology" => ~posts[d][1].ok

C17_Witness ==
  \E d \in Deliveries :
    /\ HistoryFailed(d) /\ Finished(d)
    /\ posts[d] = <<PostCall(EventOf(d), AnswerTo(EventOf(d).text), "reply", TRUE)>>

(***************************************************************************)
(* C20: handlers share no mutable state.  Under every interleaving,        *)
(*  - a reply goes to the channel and thread of its own event, and its     *)
(*    text is what call_mcp_rag_server returned for the messages ending    *)
(*    with its own event's text: the server's answer to that text, or the  *)
(*    client's fallback;                                                   *)
(*  - a step of one handler, its failures and fallbacks included, leaves   *)
(*    everything of every other handler as it is: payload, position,       *)
(*    messages, answer, acknowledgments, calls and posts.                  *)
(***************************************************************************)
HandlerState(d) ==
  <<payload[d], pc[d], messages[d], answer[d], acksSent[EnvelopeId(d)],
    acksFailed[EnvelopeId(d)], historyCalls[d], ragCalls[d], posts[d]>>

OwnReply(d) ==
  LET event == EventOf(d) IN
  /\ pc[d] \in {"post", "apology"} \/ posts[d] # << >> =>
       /\ Last(messages[d]) = [role |-> "user", content |-> event.text]
       /\ ragCalls[d] = <<RagPayload(messages[d])>>
       /\ answer[d] \in {AnswerTo(event.text),
                          "Sorry, the request timed out. Please try again."}
  /\ \A i \in DOMAIN posts[d] :
       /\ posts[d][i].channel = event.channel
       /\ posts[d][i].thread_ts = ThreadOf(event)
       /\ posts[d][i].kind = "reply" => posts[d][i].text = answer[d]

OneHandlerPerStep ==
  \A d1, d2 \in Deliveries :
    d1 # d2 /\ HandlerState(d1)' # HandlerState(d1) => HandlerState(d2)' = HandlerState(d2)

C20_HandlersIndependent ==
  /\ [](\A d \in Delivered : OwnReply(d))
  /\ [][OneHandlerPerStep]_vars

\* Two events of different channels in flight at once: the later delivery
\* has posted its answer while the earlier one, whose RAG call timed out,
\* has not posted yet.
C20_Witness ==
  \E d1, d2 \in Deliveries :
    /\ d1 < d2
    /\ pc[d1] = "post" /\ posts[d2] # << >>
    /\ EventOf(d1).channel # EventOf(d2).channel
    /\ answer[d1] = "Sorry, the request timed out. Please try again."
    /\ posts[d2] = <<PostCall(EventOf(d2), AnswerTo(EventOf(d2).text), "reply", TRUE)>>

(***************************************************************************)
(* C21: for a processed event and any thread history, the conversation     *)
(* sent to /ask has the event's own text as its last user message, so that *)
(* text is the question answered; the text of the reply is the assistant   *)
(* message /ask appended for this request (or the client's fallback when   *)
(* the call timed out), never an assistant message of the history.         *)
(***************************************************************************)
\* The contents of the assistant messages the history of delivery d holds.
HistoryAnswers(d) ==
  LET older == SelectRole(messages[d], "assistant")
  IN  { older[i].content : i \in DOMAIN older }

C21_OwnQuestionOwnAnswer ==
  \A d \in Deliveries :
    /\ \A i \in DOMAIN ragCalls[d] :
         Last(SelectRole(ragCalls[d][i].messages, "user")).content = EventOf(d).text
    /\ \A i \in DOMAIN posts[d] :
         posts[d][i].kind = "reply" =>
           /\ posts[d][i].text \in {AnswerTo(EventOf(d).text),
                                     "Sorry, the request timed out. Please try again."}
           /\ posts[d][i].text \notin HistoryAnswers(d)

\* A history with an earlier question and its answer, and the reply posted.
C21_Witness ==
  \E d \in Deliveries :
    /\ Len(messages[d]) = 4
    /\ HistoryAnswers(d) = {"a0"}
    /\ posts[d] = <<PostCall(EventOf(d), AnswerTo(EventOf(d).text), "reply", TRUE)>>

\* C22: a successful /ask response is the request's messages, unchanged and
\* in their order, followed by exactly one assistant message whose content
\* is what the pipeline returned.
C22_RequestPlusOneAnswer ==
  (Answered /\ askResponse.status_code = 200) =>
    /\ Len(askResponse.messages) = Len(askRequest) + 1
    /\ \A i \in DOMAIN askRequest : askResponse.messages[i] = askRequest[i]
    /\ Last(askResponse.messages) = [role |-> "assistant", content |-> Last(stageOut)]
    /\ stages = Pipeline

\* The request with an earlier exchange: three messages in, four out.
C22_Witness ==
  /\ Answered /\ askResponse.status_code = 200
  /\ Len(askRequest) = 3
  /\ askResponse.messages =
       <<Msg("user", "q0"), Msg("assistant", "a0"), Msg("user", "q1"),
         Msg("assistant", Last(stageOut))>>

(***************************************************************************)
(* src/bulk_importer/writer.py: read_qa_csv (63-71) and main (79-104).     *)
(* A CSV file is its header and its rows; csv.DictReader makes of a row a  *)
(* dict keyed by the header, None standing for a cell the row is short of. *)
(***************************************************************************)
MaxRows == 4

MaxBatch == 3

Headers == { <<"Questions", "Answers">>, <<"Question", "Answer">> }

\* The cells of a row: both filled, no question, no answer cell at all.
Cells == { <<"q1", "a1">>, <<"q2", "a2">>, <<"", "a3">>, <<"q4", None>> }

CsvFiles == { [header |-> h, rows |-> r] : h \in Headers, r \in SeqsUpTo(Cells, MaxRows) }

\* The dict csv.DictReader yields for row i of the file.
DictRow(file, i) ==
  [k \in {file.header[1], file.header[2]} |->
     IF k = file.header[1] THEN file.rows[i][1] ELSE file.rows[i][2]]

\* Lines 68-69.
QuestionOf(row) == Or(Get(row, "Questions", None), Get(row, "Question", None))

AnswerOf(row) == Or(Get(row, "Answers", None), Get(row, "Answer", None))

\* Line 70: the row is yielded.
Yielded(row) == Truthy(QuestionOf(row)) /\ Truthy(AnswerOf(row))

\* get_embedding (lines 36-38): a vector that is a function of the text.
get_embedding(text) == <<"embedding", text>>

PointStruct(id, vector, fields) == [id |-> id, vector |-> vector, payload |-> fields]

\* Lines 91-93: the point main makes of a yielded row.
PointOf(id, row) ==
  PointStruct(id, get_embedding(QuestionOf(row) \o "\n" \o AnswerOf(row)),
              [question |-> QuestionOf(row), answer |-> AnswerOf(row)])

\* Module load (line 22) and lines 81-88 of main.
ImportStart ==
  /\ importPc = "idle"
  /\ \E file \in CsvFiles, size \in 1..MaxBatch :
       /\ csv' = file
       /\ BATCH_SIZE' = size
  /\ batch' = << >>
  /\ total' = 0
  /\ importPc' = "loop"
  /\ UNCHANGED <<nextRow, idx, upserted, botVars, askVars, call>>

\* upsert_points (lines 74-76) on points; what main does next when it
\* returns is then; when it raises, main ends with the exception.
Upsert(points, ok, then) ==
  IF ok
  THEN /\ upserted' = Append(upserted, points)
       /\ total' = total + Len(points)
       /\ importPc' = then
  ELSE /\ importPc' = "raised"
       /\ UNCHANGED <<upserted, total>>

\* One more row of the reader: skipped at line 70, or yielded to one pass
\* of the loop of lines 90-99.
ImportRow ==
  /\ importPc = "loop"
  /\ nextRow < Len(csv.rows)
  /\ nextRow' = nextRow + 1
  /\ LET row == DictRow(csv, nextRow + 1) IN
       IF ~Yielded(row)
       THEN UNCHANGED <<idx, batch, total, upserted, importPc>>
       ELSE LET filled == Append(batch, PointOf(idx + 1, row))
            IN  /\ idx' = idx + 1
                /\ IF Len(filled) >= BATCH_SIZE
                   THEN \E ok \in BOOLEAN :
                          /\ Upsert(filled, ok, "loop")
                          /\ batch' = IF ok THEN << >> ELSE filled
                   ELSE /\ batch' = filled
                        /\ UNCHANGED <<total, upserted, importPc>>
  /\ UNCHANGED <<BATCH_SIZE, csv, botVars, askVars, call>>

\* Mutant of FinalFlush: main returns without the flush of lines 101-104.
FinalFlush_skipped ==
  /\ importPc = "loop"
  /\ nextRow = Len(csv.rows)
  /\ importPc' = "done"
  /\ UNCHANGED <<BATCH_SIZE, csv, nextRow, idx, batch, total, upserted,
                 botVars, askVars, call>>

\* Lines 101-104, after the reader is exhausted; batch is not cleared.
FinalFlush ==
  /\ importPc = "loop"
  /\ nextRow = Len(csv.rows)
  /\ IF batch # << >>
     THEN \E ok \in BOOLEAN : Upsert(batch, ok, "done")
     ELSE /\ importPc' = "done"
          /\ UNCHANGED <<upserted, total>>
  /\ UNCHANGED <<BATCH_SIZE, csv, nextRow, idx, batch, botVars, askVars, call>>

NextImport ==
  \/ ImportStart
  \/ ImportRow
  \/ FinalFlush

SpecImport == Init /\ [][NextImport]_vars

RECURSIVE Flatten(_)
\* The points of a sequence of lists, in order.
Flatten(lists) == IF lists = << >> THEN << >> ELSE Head(lists) \o Flatten(Tail(lists))

\* The rows of the file that have a question and an answer, in file order.
RowsWithBoth ==
  SelectSeq([i \in DOMAIN csv.rows |-> csv.rows[i]],
            LAMBDA cells : cells[1] \notin {None, ""} /\ cells[2] \notin {None, ""})

(***************************************************************************)
(* C23: for every file and every BATCH_SIZE >= 1, once main has finished   *)
(* the points upserted are, in file order, one point for every row that    *)
(* has a question and an answer, and only these; their ids are pairwise    *)
(* distinct; every upsert carried between 1 and BATCH_SIZE points, the     *)
(* last, partial one included; total is the number of these rows, and      *)
(* every point still in the batch buffer has been upserted.                *)
(***************************************************************************)
C23_EveryRowOnce ==
  importPc = "done" =>
    LET sent == Flatten(upserted) IN
    /\ Len(sent) = Len(RowsWithBoth)
    /\ \A i \in DOMAIN sent :
         sent[i].payload = [question |-> RowsWithBoth[i][1], answer |-> RowsWithBoth[i][2]]
    /\ \A i, j \in DOMAIN sent : i # j => sent[i].id # sent[j].id
    /\ \A k \in DOMAIN upserted : Len(upserted[k]) \in 1..BATCH_SIZE
    /\ total = Len(RowsWithBoth)
    /\ \A i \in DOMAIN batch : \E j \in DOMAIN sent : sent[j] = batch[i]

\* Four rows, three of them complete, BATCH_SIZE 2: a full batch and then
\* the partial one.
C23_Witness ==
  /\ importPc = "done" /\ BATCH_SIZE = 2
  /\ Len(csv.rows) = 4 /\ Len(RowsWithBoth) = 3
  /\ Len(upserted) = 2 /\ Len(upserted[1]) = 2 /\ Len(upserted[2]) = 1
  /\ total = 3

=============================================================================
